---------------------------- MODULE Spec2Model ----------------------------
(***************************************************************************)
(* The DBF uploaders of printersAPI as state machines.                     *)
(*                                                                         *)
(*   prog = "flask"      src/flask_dbf_uploader.py                         *)
(*                       (OrdProdInventoryUploader, NO_ORDP high-water     *)
(*                       mark, batch endpoint with individual fallback)    *)
(*   prog = "corrected"  src/corrected_schema_uploader.py                  *)
(*                       (CorrectedSchemaUploader, batch endpoint only)    *)
(*                                                                         *)
(* One step of the machine is one HTTP request together with all the code  *)
(* that runs up to the next request (or up to the opening of the state     *)
(* file).  The process may be killed between any two steps (Restart).      *)
(*                                                                         *)
(*   Spec           runs with free answers on short files                  *)
(*   SpecSend       the same, the senders recording the answers they get   *)
(*   SpecPartition  the dispatch loop at the batch sizes of the source     *)
(*   SpecTick       one run that is never killed, with fairness            *)
(*   SpecMap        the mappers and the record digest, one call each       *)
(***************************************************************************)
EXTENDS Integers, Sequences, FiniteSets, TLC

VARIABLES
  prog,          \* which uploader runs
  force,         \* FORCE_PROCESSING ("--force" in sys.argv)
  batch_size,    \* BATCH_SIZE in force for the run
  file,          \* the source DBF file: [exists, mtime, recs]
  state,         \* self.state
  disk,          \* STATE_FILE on disk
  pc,            \* position of the process
  tick,          \* locals of process_ordprod_file / process_dbf_file
  bop,           \* the running (or last) batch send: locals of the batch sender
  sop,           \* the running (or last) single-record send
  batch_result,  \* what the batch sender last returned
  status,        \* what the last tick returned
  stable,        \* the last tick completed, and nothing changed since
  hist,          \* observations of the current tick (history only)
  trace,         \* whether the senders' ops record the answers (history only)
  call           \* the last call of a function of the mappers: [fn, arg, out]

vars == <<prog, force, batch_size, file, state, disk, pc, tick, bop, sop,
          batch_result, status, stable, hist, trace, call>>

(***************************** configuration ******************************)

MAX_RETRIES == 3

\* BATCH_SIZE of the two uploaders
BATCH_SIZE(p) == IF p = "flask" THEN 50 ELSE 25

\* The batch size of the runs with free answers, scaled down so that a tick
\* of a short file has several batches.
ScaledBatch == 2

\* The longest list of records the dispatch loop is run on with every
\* request answered 200.
MaxPartition == 130

\* The longest source file, in records.
MaxRecs == 3

\* The number of times the source file is modified.
MaxMods == 1

\* The NO_ORDP values records carry, and the marks a state file left by an
\* earlier run may hold.
OrdpValues == {3, 5, 7}
StoredMarks == {4}

\* the NO_ORDP of the records the mapper fails on
UnmappableOrdp == CHOOSE n \in OrdpValues : \A m \in OrdpValues : m <= n

\* the number int() reads in the key of the records whose key is not all
\* digits (a key such as "+7")
NonDigitOrdp == UnmappableOrdp

\* the key read in a record that has no NO_ORDP field:
\* record_dict.get('NO_ORDP', '0')
MissingOrdp == 0

\* What a request may be answered: an HTTP status, or "timeout" for the
\* exceptions of requests (Timeout, RequestException), which the senders
\* all handle the same way.
BatchResponses == {"200", "201", "404", "500", "timeout"}
SingleResponses == {"200", "201", "409", "422", "500", "timeout"}

(******************************* helpers **********************************)

Min(a, b) == IF a < b THEN a ELSE b

RECURSIVE Pow2(_)
Pow2(n) == IF n = 0 THEN 1 ELSE 2 * Pow2(n - 1)

\* records[i:i + size] of Python, i counted from 0
BatchSlice(records, i, size) ==
  IF i >= Len(records) THEN <<>>
  ELSE SubSeq(records, i + 1, Min(i + size, Len(records)))

\* (variant: the range runs one step too far)
HasNextBatchInclusive(records, i, size) == i + size <= Len(records)

\* range(0, len(records), size): is there a batch after the one at i
HasNextBatch(records, i, size) == i + size < Len(records)

(******************************* records **********************************)

\* A raw record, as far as the uploaders look at it: whether its cleaned
\* key field (NO_ORDP) is non-empty and all digits, the number int() reads in
\* it, and whether the mapper returns a payload for it (false: the mapper
\* raised and returned None, or NO_OPRO was empty).  A record without the
\* key field is read with the key '0'.
Records ==
  {[isdigit |-> TRUE, ordp |-> n, mappable |-> TRUE] : n \in OrdpValues}
    \cup {[isdigit |-> TRUE, ordp |-> UnmappableOrdp, mappable |-> FALSE]}
    \cup {[isdigit |-> FALSE, ordp |-> NonDigitOrdp, mappable |-> TRUE]}
    \cup {[isdigit |-> TRUE, ordp |-> MissingOrdp, mappable |-> TRUE]}

RecordLists == UNION {[1..n -> Records] : n \in 0..MaxRecs}

(******************************** state ***********************************)

NoFileInfo == [has |-> FALSE, mtime |-> 0, size |-> 0]

DefaultState == [last_processed_ordp |-> 0, file_info |-> NoFileInfo]

NoDoc == [kind |-> "missing", doc |-> DefaultState]

\* (variant: the state file is never read)
load_default(d) == DefaultState

\* load_state: the document of the state file, or the default state when
\* the file is missing or cannot be parsed.
load_state(d) == IF d.kind = "doc" THEN d.doc ELSE DefaultState

\* (variant: the source file is not checked)
FileAccessBlind(f, stat_ok) == "ok"

\* The checks process_ordprod_file makes on the source file before it looks
\* at the state: os.path.exists, then get_file_hash returning None when
\* os.stat raises.
FileAccess(f, stat_ok) ==
  IF ~f.exists THEN "missing"
  ELSE IF ~stat_ok THEN "nostat"
  ELSE "ok"

\* get_file_hash: os.stat of the source file
get_file_hash(f) == [has |-> TRUE, mtime |-> f.mtime, size |-> Len(f.recs)]

\* prev_file_info.get('mtime', 0), prev_file_info.get('size', 0)
PrevMtime(st) == IF st.file_info.has THEN st.file_info.mtime ELSE 0
PrevSize(st) == IF st.file_info.has THEN st.file_info.size ELSE 0

\* the condition under which process_ordprod_file skips the scan
SkipsScan(frc, info, st) ==
  /\ ~frc
  /\ info.mtime = PrevMtime(st)
  /\ info.size = PrevSize(st)

\* (variant: the comparison is not strict)
is_new_record_inclusive(no_ordp, st) == no_ordp >= st.last_processed_ordp

is_new_record(no_ordp, st) == no_ordp > st.last_processed_ordp

\* highest_ordp as the scan starts
InitialHighest(st) == st.last_processed_ordp

\* the update of highest_ordp for one new record
TrackHighest(current_ordp, highest_ordp) ==
  IF current_ordp > highest_ordp THEN current_ordp ELSE highest_ordp

\* (variant: the key is not checked for digits)
ScanRecordUnchecked(r, st, acc) ==
  IF is_new_record(r.ordp, st) /\ r.mappable
    THEN [all_records |-> Append(acc.all_records, r.ordp),
          highest_ordp |-> TrackHighest(r.ordp, acc.highest_ordp)]
    ELSE acc

\* the body of the loop over the DBF records of process_ordprod_file
ScanRecord(r, st, acc) ==
  IF ~r.isdigit THEN acc
  ELSE IF is_new_record(r.ordp, st) /\ r.mappable
    THEN [all_records |-> Append(acc.all_records, r.ordp),
          highest_ordp |-> TrackHighest(r.ordp, acc.highest_ordp)]
    ELSE acc

\* all_records and highest_ordp as the loop starts
ScanStart(st) == [all_records |-> <<>>, highest_ordp |-> InitialHighest(st)]

\* the loop over the records lo..hi: the new records of the first half and
\* of the second half in file order, and the highest value met
RECURSIVE ScanFrom(_, _, _, _)
ScanFrom(recs, lo, hi, st) ==
  IF lo > hi THEN ScanStart(st)
  ELSE IF lo = hi THEN ScanRecord(recs[lo], st, ScanStart(st))
  ELSE LET mid == (lo + hi) \div 2
           left == ScanFrom(recs, lo, mid, st)
           right == ScanFrom(recs, mid + 1, hi, st)
       IN [all_records |-> left.all_records \o right.all_records,
           highest_ordp |-> TrackHighest(right.highest_ordp, left.highest_ordp)]

\* (variant: the loop is left at the first new record the mapper rejects)
ScanRecordsUntilFailure(recs, st) ==
  LET bad == {k \in 1..Len(recs) : /\ recs[k].isdigit
                                   /\ is_new_record(recs[k].ordp, st)
                                   /\ ~recs[k].mappable}
      last == IF bad = {} THEN Len(recs)
              ELSE (CHOOSE k \in bad : \A m \in bad : k <= m) - 1
  IN ScanFrom(recs, 1, last, st)

\* the loop over the DBF records of process_ordprod_file
ScanRecords(recs, st) == ScanFrom(recs, 1, Len(recs), st)

\* (variant: the records stay in file order)
KeepFileOrder(all_records) == all_records

\* all_records.sort(key=lambda x: x[0])
SortByOrdp(all_records) == SortSeq(all_records, LAMBDA a, b : a < b)

\* the loop over the DBF records of process_dbf_file: every record the
\* mapper accepts, in file order (first half, then second half)
\* (variant: the records at or below the stored mark are left out)
MapAllAboveMark(recs, lo, hi) ==
  LET new(r) == r.mappable /\ r.ordp > state.last_processed_ordp
      sel == SelectSeq(SubSeq(recs, lo, hi), new)
  IN [k \in 1..Len(sel) |-> sel[k].ordp]

RECURSIVE MapAll(_, _, _)
MapAll(recs, lo, hi) ==
  IF lo > hi THEN <<>>
  ELSE IF lo = hi THEN (IF recs[lo].mappable THEN <<recs[lo].ordp>> ELSE <<>>)
  ELSE LET mid == (lo + hi) \div 2
       IN MapAll(recs, lo, mid) \o MapAll(recs, mid + 1, hi)

\* (variant: the commit leaves self.state as it was)
KeepState(st, highest_ordp, file_info) == st

\* what the commit of process_ordprod_file puts in self.state
CommittedState(st, highest_ordp, file_info) ==
  [last_processed_ordp |-> highest_ordp, file_info |-> file_info]

(******************************* mappers **********************************)

\* Text is a sequence of characters.  A raw value of a DBF record is None,
\* a text or a whole number.
UpperCase == <<"A", "B", "C", "D", "E", "F", "G", "H", "I", "J", "K", "L", "M",
               "N", "O", "P", "Q", "R", "S", "T", "U", "V", "W", "X", "Y", "Z">>
LowerCase == <<"a", "b", "c", "d", "e", "f", "g", "h", "i", "j", "k", "l", "m",
               "n", "o", "p", "q", "r", "s", "t", "u", "v", "w", "x", "y", "z">>
Digits == <<"0", "1", "2", "3", "4", "5", "6", "7", "8", "9">>
Whitespace == {" ", "\t"}

None == [kind |-> "none"]
Text(s) == [kind |-> "str", s |-> s]
Whole(n) == [kind |-> "int", n |-> n]

\* no call of a mapper function yet
NoCall == [fn |-> "none"]

\* str.lower()
LowerChar(c) ==
  IF \E i \in DOMAIN UpperCase : UpperCase[i] = c
  THEN LowerCase[CHOOSE i \in DOMAIN UpperCase : UpperCase[i] = c]
  ELSE c
Lower(s) == [k \in DOMAIN s |-> LowerChar(s[k])]

\* str.strip()
Strip(s) ==
  LET inked == {k \in DOMAIN s : s[k] \notin Whitespace}
  IN IF inked = {} THEN <<>>
     ELSE SubSeq(s, CHOOSE k \in inked : \A m \in inked : k <= m,
                    CHOOSE k \in inked : \A m \in inked : m <= k)

\* str.isdigit()
IsDigit(s) == s # <<>> /\ \A k \in DOMAIN s : \E d \in DOMAIN Digits : Digits[d] = s[k]

\* the value of a digit character
DigitValue(c) == (CHOOSE d \in DOMAIN Digits : Digits[d] = c) - 1

\* the number a text of digits reads as (0 for the empty text)
RECURSIVE DigitsValue(_)
DigitsValue(s) ==
  IF s = <<>> THEN 0
  ELSE 10 * DigitsValue(SubSeq(s, 1, Len(s) - 1)) + DigitValue(s[Len(s)])

\* str() of a whole number that is not negative
RECURSIVE WholeText(_)
WholeText(n) ==
  IF n < 10 THEN <<Digits[n + 1]>>
  ELSE Append(WholeText(n \div 10), Digits[(n % 10) + 1])

\* str(value) of a raw value that is not None
StrOf(value) == IF value.kind = "str" THEN value.s ELSE WholeText(value.n)

\* the tokens clean_value reads as no value, beside the empty text
CleanTokens(p) ==
  IF p = "flask"
  THEN {<<"n", "a", "n">>, <<"n", "o", "n", "e">>, <<"n", "u", "l", "l">>}
  ELSE {<<"n", "a", "n">>, <<"n", "o", "n", "e">>}

\* clean_value of the uploader p
clean_value(p, value) ==
  IF value.kind = "none" \/ Lower(StrOf(value)) \in CleanTokens(p) \cup {<<>>}
  THEN <<>>
  ELSE Strip(StrOf(value))

\* record.get(field, default) of a record, a function from field names to
\* raw values
Get(record, field, default) ==
  IF field \in DOMAIN record THEN record[field] ELSE default

\* float(text) of a text of the form [sign] digits [. digits] or
\* [sign] . digits: whether it parses, its sign, its whole part and whether
\* its fraction is above zero
ParseFloat(s) ==
  LET signed == s # <<>> /\ s[1] \in {"+", "-"}
      body == IF signed THEN Tail(s) ELSE s
      dots == {k \in DOMAIN body : body[k] = "."}
      dot == IF dots = {} THEN Len(body) + 1 ELSE CHOOSE k \in dots : TRUE
      whole == SubSeq(body, 1, dot - 1)
      frac == SubSeq(body, dot + 1, Len(body))
  IN [ok |-> /\ Cardinality(dots) <= 1
             /\ whole # <<>> \/ frac # <<>>
             /\ whole = <<>> \/ IsDigit(whole)
             /\ frac = <<>> \/ IsDigit(frac),
      neg |-> signed /\ s[1] = "-",
      whole |-> IF IsDigit(whole) THEN DigitsValue(whole) ELSE 0,
      frac |-> \E k \in DOMAIN frac : frac[k] # "0"]

\* the quantity extract_quantity returns when no field gives one
DEFAULT_QUANTITY == 1000

\* the test extract_quantity makes on a cleaned candidate before float()
QuantityCandidate(value) ==
  /\ value # <<>>
  /\ Lower(value) \notin {<<"n", "a", "n">>, <<"n", "o", "n", "e">>, <<>>, <<"0">>}

\* (variant: the first candidate that parses decides, whatever its value)
QuantityOfAny(value) ==
  IF ~QuantityCandidate(value) THEN 0
  ELSE LET qty == ParseFloat(value) IN
    IF qty.ok THEN (IF qty.whole > 1 THEN qty.whole ELSE 1) ELSE 0

\* what the loop of extract_quantity returns for one candidate (0: the loop
\* goes on to the next)
QuantityOf(value) ==
  IF ~QuantityCandidate(value) THEN 0
  ELSE LET qty == ParseFloat(value) IN
    IF qty.ok /\ ~qty.neg /\ (qty.whole > 0 \/ qty.frac)
    THEN (IF qty.whole > 1 THEN qty.whole ELSE 1)
    ELSE 0

QuantityFields == <<"REN_OPRO", "CARGA_OPRO", "CANT_LIQ">>

extract_quantity(record) ==
  LET value(k) == clean_value("corrected", Get(record, QuantityFields[k], Text(<<"0">>)))
      found == {k \in DOMAIN QuantityFields : QuantityOf(value(k)) > 0}
  IN IF found = {} THEN DEFAULT_QUANTITY
     ELSE QuantityOf(value(CHOOSE k \in found : \A m \in found : k <= m))

\* str(datetime.now().year)
CurrentYear == <<"2", "0", "2", "6">>

\* text.split(sep): the pieces between the separators
RECURSIVE Split(_, _)
Split(s, sep) ==
  LET at == {k \in DOMAIN s : s[k] = sep}
  IN IF at = {} THEN <<s>>
     ELSE LET first == CHOOSE k \in at : \A m \in at : k <= m
          IN <<SubSeq(s, 1, first - 1)>> \o Split(SubSeq(s, first + 1, Len(s)), sep)

\* text[:4]
FirstFour(s) == SubSeq(s, 1, IF Len(s) < 4 THEN Len(s) ELSE 4)

\* What extract_year makes of FEC_OPRO: the year it returns at once
\* (possibly the empty text), or no return.
YearOfDate(fec_opro) ==
  IF fec_opro = <<>> THEN [returns |-> FALSE]
  ELSE IF \E k \in DOMAIN fec_opro : fec_opro[k] = "-"
    THEN [returns |-> TRUE, year |-> Split(fec_opro, "-")[1]]
  ELSE IF \E k \in DOMAIN fec_opro : fec_opro[k] = "/"
    THEN LET parts == Split(fec_opro, "/") IN
         IF Len(parts) = 3
         THEN [returns |-> TRUE, year |-> IF Len(parts[3]) = 4 THEN parts[3] ELSE <<>>]
         ELSE [returns |-> FALSE]
  ELSE IF Len(fec_opro) >= 4 /\ IsDigit(FirstFour(fec_opro))
    THEN [returns |-> TRUE, year |-> FirstFour(fec_opro)]
  ELSE [returns |-> FALSE]

extract_year(record) ==
  LET fec_opro == clean_value("corrected", Get(record, "FEC_OPRO", Text(<<>>)))
      ano == clean_value("corrected", Get(record, "ANO", Text(<<>>)))
      dated == YearOfDate(fec_opro)
  IN IF dated.returns THEN dated.year
     ELSE IF ano # <<>> /\ IsDigit(ano) THEN ano
     ELSE CurrentYear

\* (variant: no record is rejected)
RejectsNothing(cleaned) == FALSE

\* the validation of map_record_to_api: NO_OPRO is empty
Rejects(cleaned) == Get(cleaned, "NO_OPRO", Text(<<>>)).s = <<>>

\* the warehouse id map_record_to_api writes in every payload (its first
\* characters)
WAREHOUSE_ID == <<"4", "5", "c", "4", "b", "b", "c", "8">>

\* the filter of map_record_to_api: v not in [None, 0] or k == 'notes'
KeepsField(k, v) == v \notin {None, Whole(0)} \/ k = "notes"

\* map_record_to_api: None, or the payload as a function from its keys to
\* texts and whole numbers
map_record_to_api(record) ==
  LET cleaned == [k \in DOMAIN record |-> Text(clean_value("corrected", record[k]))]
      year == extract_year(cleaned)
      quantity == extract_quantity(cleaned)
      mapped == [product_key |-> Get(cleaned, "CVE_PROP", Text(<<>>)),
                 quantity_requested |-> Whole(quantity),
                 warehouse_id |-> Text(WAREHOUSE_ID),
                 priority |-> Text(<<"m", "e", "d", "i", "u", "m">>),
                 no_opro |-> Get(cleaned, "NO_OPRO", Text(<<>>)),
                 notes |-> Get(cleaned, "OBSERVA", Text(<<>>)),
                 lote_referencia |-> Get(cleaned, "LOTE", Text(<<>>)),
                 ano |-> Text(year),
                 stat_opro |-> Get(cleaned, "STAT_OPRO", Text(<<>>))]
      kept == {k \in DOMAIN mapped : KeepsField(k, mapped[k])}
  IN IF Rejects(cleaned) THEN None
     ELSE [kind |-> "dict", fields |-> [k \in kept |-> mapped[k]]]

\* the loop of process_dbf_file over the records of the file: the payloads
\* of the records the mapper accepts, in file order
RECURSIVE CollectMapped(_)
CollectMapped(records) ==
  IF records = <<>> THEN <<>>
  ELSE LET mapped_record == map_record_to_api(Head(records))
       IN (IF mapped_record # None THEN <<mapped_record>> ELSE <<>>)
            \o CollectMapped(Tail(records))

(******************************* senders **********************************)

\* The locals of a sender: the attempt of its retry loop, and as history
\* the requests issued, the backoff delays slept, the answers received (in
\* the runs that record them), whether the loop was left by break, and how
\* the sender returned.
NewOp == [attempt |-> 0, reqs |-> 0, delays |-> <<>>, answers |-> <<>>,
          broke |-> FALSE, done |-> FALSE, ok |-> FALSE]

NoResult == [success |-> FALSE, success_count |-> 0, total_count |-> 0,
             results |-> <<>>, via |-> "none"]

\* (variant: the loop goes round again whatever the answer)
SingleStepDeaf(resp, attempt) ==
  IF attempt < MAX_RETRIES - 1 THEN "sleep"
  ELSE IF resp \in {"200", "201", "409"} THEN "ok"
  ELSE "fail"

\* (variant: 409 is retried like any other error)
SingleStepConflictRetried(resp, attempt) ==
  IF resp \in {"200", "201"} THEN "ok"
  ELSE IF attempt < MAX_RETRIES - 1 THEN "sleep"
  ELSE "fail"

\* One pass of the retry loop of send_inventory_code_to_api, given the
\* answer to the request: "ok" returns success, "sleep" backs off and goes
\* round again, "fail" leaves the loop and returns failure.
SingleStep(resp, attempt) ==
  IF resp \in {"200", "201"} THEN "ok"
  ELSE IF resp = "409" THEN "ok"
  ELSE IF attempt < MAX_RETRIES - 1 THEN "sleep"
  ELSE "fail"

\* (variant: the loop runs MAX_RETRIES + 1 times)
FlaskBatchStepOneMore(resp, attempt) ==
  IF resp \in {"200", "201"} THEN "ok"
  ELSE IF resp = "404" THEN "break"
  ELSE IF attempt < MAX_RETRIES THEN "sleep"
  ELSE "exhausted"

\* (variant: 404 is retried like any other error)
FlaskBatchStepRetry404(resp, attempt) ==
  IF resp \in {"200", "201"} THEN "ok"
  ELSE IF attempt < MAX_RETRIES - 1 THEN "sleep"
  ELSE "exhausted"

\* One pass of the retry loop of send_inventory_codes_batch_to_api: "ok"
\* returns success, "break" and "exhausted" go to the individual sends.
FlaskBatchStep(resp, attempt) ==
  IF resp \in {"200", "201"} THEN "ok"
  ELSE IF resp = "404" THEN "break"
  ELSE IF attempt < MAX_RETRIES - 1 THEN "sleep"
  ELSE "exhausted"

\* One pass of the retry loop of send_batch_to_api.
CorrectedBatchStep(resp, attempt) ==
  IF resp = "200" THEN "ok"
  ELSE IF attempt < MAX_RETRIES - 1 THEN "sleep"
  ELSE "exhausted"

\* (variant: the first delay is 2, as for 2 ** (attempt + 1))
BackoffFromTwo(attempt) == Pow2(attempt + 1)

\* time.sleep(2 ** attempt)
Backoff(attempt) == Pow2(attempt)

\* the op after a request that was answered resp
Answered(op, resp) ==
  [op EXCEPT !.reqs = @ + 1, !.answers = IF trace THEN Append(@, resp) ELSE @]

Slept(op) == [op EXCEPT !.attempt = @ + 1, !.delays = Append(@, Backoff(op.attempt))]

Returned(op, ok) == [op EXCEPT !.done = TRUE, !.ok = ok]

\* The retry loop of the batch sender has been left for the individual
\* sends: of its locals only the way it was left is looked at again.
Left(op) == [NewOp EXCEPT !.broke = op.broke]

\* the number of successful results
RECURSIVE CountTrue(_)
CountTrue(s) == IF s = <<>> THEN 0 ELSE (IF Head(s) THEN 1 ELSE 0) + CountTrue(Tail(s))

\* (variant: after the retries were used up the sender returns a failure,
\* only the 404 break returns the results of the individual sends)
FallbackResultOnly404(results, batch, via) ==
  IF via = "404"
  THEN [success |-> TRUE, success_count |-> CountTrue(results),
        total_count |-> Len(batch), results |-> results, via |-> via]
  ELSE [success |-> FALSE, success_count |-> 0, total_count |-> Len(batch),
        results |-> <<>>, via |-> "failed"]

\* (variant: the sender reports success only if some individual send
\* succeeded)
FallbackResultIfAnySent(results, batch, via) ==
  [success |-> CountTrue(results) > 0, success_count |-> CountTrue(results),
   total_count |-> Len(batch), results |-> results, via |-> via]

\* the value send_inventory_codes_batch_to_api returns after the individual
\* sends
FallbackResult(results, batch, via) ==
  [success |-> TRUE, success_count |-> CountTrue(results),
   total_count |-> Len(batch), results |-> results, via |-> via]

\* the value a batch sender returns for a success answer without counts
BatchOkResult(batch) ==
  [success |-> TRUE, success_count |-> Len(batch), total_count |-> Len(batch),
   results |-> <<>>, via |-> "batch"]

\* the value send_batch_to_api returns after the retries
BatchFailedResult(batch) ==
  [success |-> FALSE, success_count |-> 0, total_count |-> Len(batch),
   results |-> <<>>, via |-> "failed"]

(*************************** the process ***********************************)

NewTick == [file_info |-> NoFileInfo, highest_ordp |-> 0, batch_records |-> <<>>,
            i |-> 0, j |-> 0, mode |-> "none", results |-> <<>>,
            successful_sends |-> 0, total_sent |-> 0]

\* the mark a state file holds (0 when it holds none)
PersistedMark(d) == load_state(d).last_processed_ordp

\* History of a tick: the marks in memory and on disk as it began, whether
\* it began with nothing changed since a completed tick, whether it scanned
\* the file, whether it issued a request, the positions of batch_records whose
\* delivery was confirmed, the batches handed to the batch sender, the
\* records of the current batch sent one by one, whether the process was
\* started after a tick that completed and saved, with nothing changed since,
\* and (in a run that records the answers) the number of requests made to
\* the batch endpoint and to the single-record endpoint.
NewHist(st, d, stb) ==
  [mark0 |-> st.last_processed_ordp, disk0 |-> PersistedMark(d), stable0 |-> stb,
   scanned |-> FALSE, requested |-> FALSE, confirmed |-> {}, batches |-> <<>>,
   singles |-> <<>>, survived |-> FALSE, batch_reqs |-> 0, single_reqs |-> 0]

CurrentBatch == BatchSlice(tick.batch_records, tick.i, batch_size)

\* positions in batch_records of the current batch
BatchPositions == {tick.i + k : k \in 1..Len(CurrentBatch)}

\* (variant: the loop leaves for the commit after any batch)
AdvanceToCommit(tk) ==
  [tick |-> [tk EXCEPT !.j = 0, !.mode = "none", !.results = <<>>], pc |-> "commit"]

\* the loop of process_ordprod_file / process_dbf_file goes on to the next
\* batch, or leaves for the commit
Advance(tk) ==
  LET t == [tk EXCEPT !.j = 0, !.mode = "none", !.results = <<>>] IN
  IF HasNextBatch(tk.batch_records, tk.i, batch_size)
  THEN [tick |-> [t EXCEPT !.i = @ + batch_size], pc |-> "batch"]
  ELSE [tick |-> t, pc |-> "commit"]

\* process_ordprod_file takes the result of the batch sender
Orchestrate(tk, res, batch) ==
  LET t == [tk EXCEPT !.total_sent = @ + Len(batch)] IN
  IF res.success
  THEN Advance([t EXCEPT !.successful_sends = @ + res.success_count])
  ELSE [tick |-> [t EXCEPT !.j = 1, !.mode = "orch", !.results = <<>>],
        pc |-> "single"]

\* process_dbf_file takes the result of send_batch_to_api
OrchestrateCorrected(tk, res, batch) ==
  IF res.success
  THEN Advance([tk EXCEPT !.successful_sends = @ + res.success_count])
  ELSE Advance(tk)

\* The state files an earlier run may have left.
StoredDocs ==
  {NoDoc} \cup
  {[kind |-> "doc", doc |-> [last_processed_ordp |-> h, file_info |-> NoFileInfo]] :
     h \in StoredMarks}

\* The source files a run may find: any list of records, or an empty file
\* whose modification time is 0.
SourceFiles ==
  [exists : {TRUE}, mtime : {1}, recs : RecordLists, mods : {0}]
    \cup {[exists |-> TRUE, mtime |-> 0, recs |-> <<>>, mods |-> 0]}

\* __init__ of the uploader (self.state = self.load_state()), in a given
\* environment.
Construct(forces, sizes, files, disks, tr) ==
  /\ prog \in {"flask", "corrected"}
  /\ force \in (IF prog = "flask" THEN forces ELSE {FALSE})
  /\ batch_size \in sizes[prog]
  /\ file \in files
  /\ disk \in disks
  /\ trace = tr
  /\ call = NoCall
  /\ state = load_state(disk)
  /\ pc = "idle"
  /\ tick = NewTick
  /\ bop = NewOp
  /\ sop = NewOp
  /\ batch_result = NoResult
  /\ status = "none"
  /\ stable = FALSE
  /\ hist = NewHist(state, disk, FALSE)

Scaled == [p \in {"flask", "corrected"} |-> {ScaledBatch}]

Init == Construct(BOOLEAN, Scaled, SourceFiles, StoredDocs, FALSE)

\* process_ordprod_file, from its entry to its first request (or to its
\* return, or to the commit when there is nothing to send)
ProcessOrdprodStart ==
  /\ prog = "flask"
  /\ pc = "idle"
  /\ UNCHANGED <<call, trace, prog, force, batch_size, file, disk, bop, sop, batch_result>>
  /\ \E stat_ok \in BOOLEAN :
     LET h0 == [NewHist(state, disk, stable) EXCEPT !.survived = hist.survived] IN
     IF FileAccess(file, stat_ok) # "ok"
     THEN /\ status' = "error"
          /\ stable' = FALSE
          /\ hist' = h0
          /\ pc' = "done"
          /\ UNCHANGED <<state, tick>>
     ELSE LET file_info == get_file_hash(file) IN
       IF SkipsScan(force, file_info, state)
       THEN /\ status' = "completed"
            /\ stable' = TRUE
            /\ hist' = h0
            /\ pc' = "done"
            /\ UNCHANGED <<state, tick>>
       ELSE LET st == IF force THEN [state EXCEPT !.last_processed_ordp = 0] ELSE state
                scan == ScanRecords(file.recs, st)
                sorted == SortByOrdp(scan.all_records)
            IN /\ state' = st
               /\ status' = "running"
               /\ stable' = FALSE
               /\ hist' = [h0 EXCEPT !.scanned = TRUE]
               /\ tick' = [NewTick EXCEPT !.file_info = file_info,
                                          !.highest_ordp = scan.highest_ordp,
                                          !.batch_records = sorted]
               /\ pc' = IF sorted # <<>> THEN "batch" ELSE "commit"

\* one request of send_inventory_codes_batch_to_api and what follows it
FlaskBatchAttemptOn(responses) ==
  /\ prog = "flask"
  /\ pc = "batch"
  /\ UNCHANGED <<call, trace, prog, force, batch_size, file, disk, state, status, stable>>
  /\ \E resp \in responses :
       LET batch == CurrentBatch
           b0 == IF bop.done THEN NewOp ELSE bop
           b1 == Answered(b0, resp)
           step == FlaskBatchStep(resp, b0.attempt)
           h1 == [hist EXCEPT !.requested = TRUE,
                              !.batches = IF b0.reqs = 0 THEN Append(@, batch) ELSE @,
                              !.singles = IF b0.reqs = 0 THEN <<>> ELSE @,
                              !.batch_reqs = IF trace THEN @ + 1 ELSE @]
       IN CASE step = "sleep" ->
                 /\ bop' = Slept(b1)
                 /\ hist' = h1
                 /\ sop' = NewOp
                 /\ batch_result' = NoResult
                 /\ UNCHANGED <<pc, tick>>
            [] step = "ok" ->
                 LET res == BatchOkResult(batch)
                     nxt == Orchestrate(tick, res, batch)
                 IN /\ bop' = Returned(b1, TRUE)
                    /\ batch_result' = res
                    /\ sop' = NewOp
                    /\ hist' = [h1 EXCEPT !.confirmed = @ \cup BatchPositions]
                    /\ tick' = nxt.tick
                    /\ pc' = nxt.pc
            [] OTHER ->
                 /\ bop' = [b1 EXCEPT !.broke = (step = "break")]
                 /\ hist' = h1
                 /\ sop' = NewOp
                 /\ batch_result' = NoResult
                 /\ tick' = [tick EXCEPT !.j = 1, !.mode = "fallback", !.results = <<>>]
                 /\ pc' = "single"

\* one request of send_inventory_code_to_api and what follows it, called
\* from the fallback of the batch sender (mode "fallback") or from the
\* failed-batch branch of process_ordprod_file (mode "orch")
SingleAttempt ==
  /\ prog = "flask"
  /\ pc = "single"
  /\ UNCHANGED <<call, trace, prog, force, batch_size, file, disk, state, status, stable>>
  /\ \E resp \in SingleResponses :
       LET batch == CurrentBatch
           s0 == IF sop.done THEN NewOp ELSE sop
           s1 == Answered(s0, resp)
           step == SingleStep(resp, s0.attempt)
           h1 == [hist EXCEPT !.requested = TRUE,
                              !.singles = IF s0.reqs = 0 THEN Append(@, batch[tick.j]) ELSE @,
                              !.single_reqs = IF trace THEN @ + 1 ELSE @]
       IN IF step = "sleep"
          THEN /\ sop' = Slept(s1)
               /\ hist' = h1
               /\ bop' = Left(bop)
               /\ UNCHANGED <<pc, tick, batch_result>>
          ELSE LET ok == (step = "ok")
                   h2 == [h1 EXCEPT !.confirmed = IF ok THEN @ \cup {tick.i + tick.j} ELSE @]
                   last == (tick.j >= Len(batch))
               IN /\ sop' = Returned(s1, ok)
                  /\ hist' = h2
                  /\ IF tick.mode = "fallback"
                     THEN LET results == Append(tick.results, ok) IN
                       IF ~last
                       THEN /\ tick' = [tick EXCEPT !.j = @ + 1, !.results = results]
                            /\ bop' = Left(bop)
                            /\ UNCHANGED <<pc, batch_result>>
                       ELSE LET res == FallbackResult(results, batch,
                                         IF bop.broke THEN "404" ELSE "exhausted")
                                nxt == Orchestrate(tick, res, batch)
                            IN /\ batch_result' = res
                               /\ bop' = Returned(Left(bop), TRUE)
                               /\ tick' = nxt.tick
                               /\ pc' = nxt.pc
                     ELSE LET t == [tick EXCEPT !.successful_sends = IF ok THEN @ + 1 ELSE @] IN
                       /\ bop' = Left(bop)
                       /\ UNCHANGED batch_result
                       /\ IF ~last
                          THEN /\ tick' = [t EXCEPT !.j = @ + 1]
                               /\ UNCHANGED pc
                          ELSE /\ tick' = Advance(t).tick
                               /\ pc' = Advance(t).pc

\* process_dbf_file, from its entry to its first request (or to its return);
\* "readable" is whether DBF(...) and the iteration over it raise nothing
ProcessDbfStart ==
  /\ prog = "corrected"
  /\ pc = "idle"
  /\ stable' = FALSE
  /\ UNCHANGED <<call, trace, prog, force, batch_size, file, disk, state, bop, sop, batch_result>>
  /\ \E readable \in BOOLEAN :
     IF ~file.exists \/ ~readable
     THEN /\ status' = "error"
          /\ pc' = "done"
          /\ hist' = NewHist(state, disk, stable)
          /\ UNCHANGED tick
     ELSE LET all_records == MapAll(file.recs, 1, Len(file.recs)) IN
          /\ hist' = [NewHist(state, disk, stable) EXCEPT !.scanned = TRUE]
          /\ tick' = [NewTick EXCEPT !.batch_records = all_records]
          /\ IF all_records = <<>>
             THEN status' = "completed" /\ pc' = "done"
             ELSE status' = "running" /\ pc' = "batch"

\* one request of send_batch_to_api and what follows it
CorrectedBatchAttemptOn(responses) ==
  /\ prog = "corrected"
  /\ pc = "batch"
  /\ UNCHANGED <<call, trace, prog, force, batch_size, file, disk, state, status, stable, sop>>
  /\ \E resp \in responses :
       LET batch == CurrentBatch
           b0 == IF bop.done THEN NewOp ELSE bop
           b1 == Answered(b0, resp)
           step == CorrectedBatchStep(resp, b0.attempt)
           h1 == [hist EXCEPT !.requested = TRUE,
                              !.batches = IF b0.reqs = 0 THEN Append(@, batch) ELSE @,
                              !.batch_reqs = IF trace THEN @ + 1 ELSE @]
       IN IF step = "sleep"
          THEN /\ bop' = Slept(b1)
               /\ hist' = h1
               /\ batch_result' = NoResult
               /\ UNCHANGED <<pc, tick>>
          ELSE LET ok == (step = "ok")
                   res == IF ok THEN BatchOkResult(batch) ELSE BatchFailedResult(batch)
                   nxt == OrchestrateCorrected(tick, res, batch)
               IN /\ bop' = Returned(b1, ok)
                  /\ batch_result' = res
                  /\ hist' = [h1 EXCEPT !.confirmed = IF ok THEN @ \cup BatchPositions ELSE @]
                  /\ tick' = nxt.tick
                  /\ pc' = nxt.pc

\* (variant: the run reports whether every record was sent)
ReturnsAllSent(tk) == tk.successful_sends = Len(tk.batch_records)

\* the value process_dbf_file returns after save_state: True, whatever the
\* batch sender returned and whether or not the state was saved
ProcessDbfReturn(tk) == TRUE

\* the status a tick returns with after the commit
ReturnStatus ==
  IF prog = "flask" \/ ProcessDbfReturn(tick) THEN "completed" ELSE "error"

\* The commit: the update of self.state, then save_state up to the opening
\* of STATE_FILE for writing, which truncates it, or fails and leaves it.
\* The senders have returned: their locals are gone.
Commit ==
  /\ pc = "commit"
  /\ state' = IF prog = "flask"
              THEN CommittedState(state, tick.highest_ordp, tick.file_info)
              ELSE state
  /\ bop' = NewOp
  /\ sop' = NewOp
  /\ batch_result' = NoResult
  /\ UNCHANGED <<call, trace, prog, force, batch_size, file, tick, hist>>
  /\ \E opened \in BOOLEAN :
       IF opened
       THEN /\ disk' = [kind |-> "corrupt", doc |-> DefaultState]
            /\ pc' = "saving"
            /\ UNCHANGED <<status, stable>>
       ELSE /\ UNCHANGED disk
            /\ pc' = "done"
            /\ status' = ReturnStatus
            /\ stable' = (prog = "flask")

\* json.dump into the opened STATE_FILE, and the return of the tick
SaveWrite ==
  /\ pc = "saving"
  /\ UNCHANGED <<call, trace, prog, force, batch_size, file, state, tick, bop, sop, batch_result, hist>>
  /\ \E written \in BOOLEAN :
       disk' = IF written THEN [kind |-> "doc", doc |-> state] ELSE disk
  /\ pc' = "done"
  /\ status' = ReturnStatus
  /\ stable' = (prog = "flask")

\* run_continuous: run_once has returned, the loop sleeps CHECK_INTERVAL and
\* comes round; the locals of the tick are gone.
Sleep ==
  /\ prog = "flask"
  /\ pc = "done"
  /\ pc' = "idle"
  /\ tick' = NewTick
  /\ bop' = NewOp
  /\ sop' = NewOp
  /\ batch_result' = NoResult
  /\ status' = "none"
  /\ hist' = NewHist(state, disk, FALSE)
  /\ UNCHANGED <<call, trace, prog, force, batch_size, file, state, disk, stable>>

\* run_continuous: KeyboardInterrupt arrives during the sleep or inside
\* run_once, where no handler catches it before the one of the main loop,
\* which leaves the loop; the process ends.
Interrupt ==
  /\ prog = "flask"
  /\ pc # "stopped"
  /\ pc' = "stopped"
  /\ tick' = NewTick
  /\ bop' = NewOp
  /\ sop' = NewOp
  /\ batch_result' = NoResult
  /\ status' = "none"
  /\ stable' = FALSE
  /\ hist' = NewHist(state, disk, FALSE)
  /\ UNCHANGED <<call, trace, prog, force, batch_size, file, state, disk>>

\* The process ends (killed at any point, or after its return) and a new
\* one is constructed: __init__ loads the state.
Restart ==
  /\ state' = load_state(disk)
  /\ pc' = "idle"
  /\ tick' = NewTick
  /\ bop' = NewOp
  /\ sop' = NewOp
  /\ batch_result' = NoResult
  /\ status' = "none"
  /\ stable' = FALSE
  /\ hist' = [NewHist(state', disk, FALSE) EXCEPT
               !.survived = /\ prog = "flask" /\ pc = "done" /\ stable
                            /\ disk = [kind |-> "doc", doc |-> state]]
  /\ UNCHANGED <<call, trace, prog, force, batch_size, file, disk>>

\* Another program writes the source file between two runs: it appends a
\* record, rewrites the file in place, or removes it.
FileModify ==
  /\ pc = "idle"
  /\ file.exists
  /\ file.mods < MaxMods
  /\ \/ \E r \in Records :
          /\ Len(file.recs) < MaxRecs
          /\ file' = [file EXCEPT !.recs = Append(@, r), !.mtime = @ + 1, !.mods = @ + 1]
     \/ file' = [file EXCEPT !.mtime = @ + 1, !.mods = @ + 1]
     \/ file' = [file EXCEPT !.exists = FALSE, !.mods = @ + 1]
  /\ stable' = FALSE
  /\ hist' = [hist EXCEPT !.survived = FALSE]
  /\ UNCHANGED <<call, trace, prog, force, batch_size, state, disk, pc, tick, bop, sop,
                 batch_result, status>>

Next ==
  \/ ProcessOrdprodStart
  \/ FlaskBatchAttemptOn(BatchResponses)
  \/ SingleAttempt
  \/ ProcessDbfStart
  \/ CorrectedBatchAttemptOn(BatchResponses)
  \/ Commit
  \/ SaveWrite
  \/ Sleep
  \/ Interrupt
  \/ Restart
  \/ FileModify

Spec == Init /\ [][Next]_vars

(********************* runs that record the answers ***********************)

\* Files of valid, mappable records in ascending order of NO_ORDP.
SendLists ==
  {s \in RecordLists :
     \A k \in 1..Len(s) : /\ s[k].isdigit
                          /\ s[k].ordp \in OrdpValues
                          /\ s[k].mappable
                          /\ k > 1 => s[k - 1].ordp < s[k].ordp}

SendFiles == [exists : {TRUE}, mtime : {1}, recs : SendLists, mods : {0}]

\* A first run without --force, the senders recording every answer.
InitSend == Construct({FALSE}, Scaled, SendFiles, {NoDoc}, TRUE)

SpecSend == InitSend /\ [][Next]_vars

\* One run of process_ordprod_file or process_dbf_file, from its entry to
\* its return.
NextTick ==
  \/ ProcessOrdprodStart
  \/ FlaskBatchAttemptOn(BatchResponses)
  \/ SingleAttempt
  \/ ProcessDbfStart
  \/ CorrectedBatchAttemptOn(BatchResponses)
  \/ Commit
  \/ SaveWrite

\* The run is one thread that is never killed, and every request returns
\* or times out: the next step of the run is always taken.
SpecTick == InitSend /\ [][NextTick]_vars /\ WF_vars(NextTick)

(************* the dispatch loop at the batch sizes of the source **********)

PartitionSizes == [p \in {"flask", "corrected"} |-> {1, ScaledBatch, BATCH_SIZE(p)}]

\* Files of n valid, mappable records numbered 1..n.
PartitionFiles ==
  {[exists |-> TRUE, mtime |-> 1, mods |-> 0,
    recs |-> [k \in 1..n |-> [isdigit |-> TRUE, ordp |-> k, mappable |-> TRUE]]] :
     n \in 0..MaxPartition}

InitPartition == Construct({FALSE}, PartitionSizes, PartitionFiles, {NoDoc}, FALSE)

\* One run in which the endpoint answers every batch request 200 and the
\* state file can be written.
NextPartition ==
  \/ ProcessOrdprodStart
  \/ ProcessDbfStart
  \/ FlaskBatchAttemptOn({"200"})
  \/ CorrectedBatchAttemptOn({"200"})
  \/ Commit
  \/ SaveWrite

SpecPartition == InitPartition /\ [][NextPartition]_vars

(******************** the functions of the mappers ************************)

\* The raw values clean_value is called with.
CleanInputs ==
  {None, Whole(0), Whole(7), Whole(120)} \cup
  {Text(s) : s \in {<<>>, <<" ">>, <<" ", "\t">>,
                    <<"n", "a", "n">>, <<"N", "a", "N">>, <<"N", "O", "N", "E">>,
                    <<"N", "o", "n", "e">>, <<" ", "n", "a", "n", " ">>,
                    <<"n", "o", "n", "e", " ">>, <<"n", "a", "n", " ">>,
                    <<"n", "u", "l", "l">>,
                    <<"N", "U", "L", "L">>, <<"n", "a", "n", "o">>,
                    <<"0">>, <<" ", "1", "2", ".", "5", " ">>,
                    <<"A", "b", " ", "c">>, <<"\t", "x">>}}

\* A run makes one call of a function of the mappers, and nothing but call
\* changes in it.
ProcessUnchanged ==
  /\ call = NoCall
  /\ UNCHANGED <<trace, prog, force, batch_size, file, state, disk, pc, tick, bop,
                 sop, batch_result, status, stable, hist>>

\* a field that the record does not have
Absent == [kind |-> "absent"]

\* the record that holds the fields of an assignment that are not Absent
RecordOf(assignment) ==
  [f \in {g \in DOMAIN assignment : assignment[g] # Absent} |-> assignment[f]]

\* The values of the quantity fields extract_quantity is called with.
QuantityInputs ==
  {Absent, None, Whole(0), Whole(40)} \cup
  {Text(s) : s \in {<<>>, <<"0">>, <<" ">>, <<"n", "a", "n">>, <<"0", ".", "0">>, <<"-", "3">>, <<"0", ".", "5">>, <<"1", "2", ".", "5">>, <<"7">>, <<"a", "b", "c">>, <<"1", ".", "2", ".", "3">>, <<"+", "2", ".">>}}

\* The values of FEC_OPRO and of ANO extract_year is called with.
DateInputs ==
  {Absent, None} \cup
  {Text(s) : s \in {<<>>, <<"2", "0", "2", "4", "-", "0", "5", "-", "0", "1">>, <<"-", "0", "5", "-", "0", "1">>, <<"0", "1", "/", "0", "2", "/", "2", "0", "2", "4">>, <<"0", "1", "/", "0", "2", "/", "2", "4">>, <<"1", "/", "2">>, <<"2", "0", "2", "4", "0", "5", "0", "1">>, <<"2", "0", "2", "4">>, <<"2", "0", "2", "x">>, <<"2", "4">>, <<" ", "n", "a", "n", " ">>}}
AnoInputs ==
  {Absent, Whole(2023)} \cup {Text(s) : s \in {<<>>, <<"2", "0", "2", "2">>, <<"2", "2", "a">>, <<"n", "a", "n">>}}

\* The records map_record_to_api is called with.
MapInputs ==
  {RecordOf([NO_OPRO |-> n, CVE_PROP |-> c, OBSERVA |-> o, LOTE |-> l,
             STAT_OPRO |-> st, FEC_OPRO |-> f, ANO |-> Absent,
             REN_OPRO |-> Absent, CARGA_OPRO |-> Absent, CANT_LIQ |-> q]) :
     n \in {Absent, None, Whole(15)} \cup
            {Text(x) : x \in {<<>>, <<" ">>, <<"n", "a", "n">>, <<" ", "n", "a", "n", " ">>, <<"N", "O", "N", "E">>, <<"A", "1">>, <<"0">>}},
     c \in {Text(<<>>), Text(<<"P", "1">>)},
     o \in {Absent, Text(<<>>), Text(<<"o", "k">>)},
     l \in {Text(<<>>), Text(<<"L", "7">>)},
     st \in {Absent} \cup {Text(x) : x \in {<<>>, <<"U", "R", "G", "E", "N", "T", "E">>, <<"u", "r", "g", "e", "n", "t", "e", " ", "h", "o", "y">>, <<"C", "a", "n", "c", "e", "l", "a", "d", "a">>, <<"t", "e", "r", "m", "i", "n", "a", "d", "a">>, <<"C", "o", "m", "p", "l", "e", "t", "a", "d", "a">>, <<"a", "c", "t", "i", "v", "a">>}},
     f \in {Text(<<>>), Text(<<"2", "0", "2", "4", "-", "0", "5", "-", "0", "1">>), Text(<<"0", "1", "/", "0", "2", "/", "2", "4">>)},
     q \in {Text(<<>>), Text(<<"0">>), Text(<<"1", "2", ".", "5">>)}}

\* The files process_dbf_file reads its records from.
MapFiles ==
  LET heads == {RecordOf([NO_OPRO |-> n, OBSERVA |-> Text(<<>>)]) :
                  n \in {Absent, None} \cup {Text(x) : x \in {<<>>, <<"n", "a", "n">>, <<"A", "1">>, <<"B", "2">>}}}
  IN UNION {[1..k -> heads] : k \in 0..MaxRecs}

CleanValueCall ==
  /\ ProcessUnchanged
  /\ \E v \in CleanInputs :
       call' = [fn |-> "clean_value", arg |-> v, out |-> clean_value(prog, v)]

ExtractQuantityCall ==
  /\ ProcessUnchanged
  /\ prog = "corrected"
  /\ \E r, c, l \in QuantityInputs :
       LET record == RecordOf([REN_OPRO |-> r, CARGA_OPRO |-> c, CANT_LIQ |-> l])
       IN call' = [fn |-> "extract_quantity", arg |-> record,
                   out |-> extract_quantity(record)]

ExtractYearCall ==
  /\ ProcessUnchanged
  /\ prog = "corrected"
  /\ \E f \in DateInputs, a \in AnoInputs :
       LET record == RecordOf([FEC_OPRO |-> f, ANO |-> a])
       IN call' = [fn |-> "extract_year", arg |-> record, out |-> extract_year(record)]

MapRecordCall ==
  /\ ProcessUnchanged
  /\ prog = "corrected"
  /\ \E record \in MapInputs :
       call' = [fn |-> "map_record_to_api", arg |-> record,
                out |-> map_record_to_api(record)]

\* the scan of process_dbf_file, up to the list it slices into batches
CollectCall ==
  /\ ProcessUnchanged
  /\ prog = "corrected"
  /\ \E records \in MapFiles :
       call' = [fn |-> "process_dbf_file", arg |-> records,
                out |-> CollectMapped(records)]

\* ---- the content-hash strategy ----
\* A raw record is the sequence of its (name, value) pairs in insertion
\* order; a name is a text, a value is a text, a whole number or a date.

Date(y, m, d) == [kind |-> "date", y |-> y, m |-> m, d |-> d]

\* the characters of a serialised record, in the order of their codes
HashChars == <<"'", "-", "0", "1", "2", "3", "4", "5", "6", "7", "8", "9",
               ";", "=", "A", "B", "C", "x">>

Code(c) == CHOOSE i \in 1..Len(HashChars) : HashChars[i] = c

\* the order of two names: a sorts before b
RECURSIVE NameBefore(_, _)
NameBefore(a, b) ==
  IF b = <<>> THEN FALSE
  ELSE IF a = <<>> THEN TRUE
  ELSE IF Code(Head(a)) # Code(Head(b)) THEN Code(Head(a)) < Code(Head(b))
  ELSE NameBefore(Tail(a), Tail(b))

\* two digits of a month or a day
Pad2(n) == IF n < 10 THEN <<"0">> \o WholeText(n) ELSE WholeText(n)

\* the ISO-8601 text of a date
IsoFormat(v) == WholeText(v.y) \o <<"-">> \o Pad2(v.m) \o <<"-">> \o Pad2(v.d)

\* a date becomes its ISO-8601 text, any other value stays
CanonicalValue(v) == IF v.kind = "date" THEN Text(IsoFormat(v)) ELSE v

\* one pair put in its place among pairs already sorted by name
RECURSIVE InsertByName(_, _)
InsertByName(pair, sorted) ==
  IF sorted = <<>> THEN <<pair>>
  ELSE IF NameBefore(pair.name, Head(sorted).name) THEN <<pair>> \o sorted
  ELSE <<Head(sorted)>> \o InsertByName(pair, Tail(sorted))

\* (variant: the pairs stay in insertion order)
KeepInsertionOrder(record) == record

\* the pairs of a record sorted by name
RECURSIVE SortFields(_)
SortFields(record) ==
  IF record = <<>> THEN <<>>
  ELSE InsertByName(Head(record), SortFields(Tail(record)))

\* the text of a value: a text is quoted, a number is not
SerializeValue(v) ==
  IF v.kind = "str" THEN <<"'">> \o v.s \o <<"'">> ELSE WholeText(v.n)

\* the text of the pairs, in the order they come
RECURSIVE Serialize(_)
Serialize(pairs) ==
  IF pairs = <<>> THEN <<>>
  ELSE Head(pairs).name \o <<"=">> \o SerializeValue(CanonicalValue(Head(pairs).value))
         \o <<";">> \o Serialize(Tail(pairs))

DigestModulus == 65536
DigestFactor == 31

\* the digest of a text, folded from its first character to its last
RECURSIVE DigestOf(_)
DigestOf(s) ==
  IF s = <<>> THEN 7
  ELSE (DigestOf(SubSeq(s, 1, Len(s) - 1)) * DigestFactor + Code(s[Len(s)])) % DigestModulus

\* the content digest of a raw record
get_record_hash(record) == DigestOf(Serialize(SortFields(record)))

\* a record is changed iff its digest is not in the stored digest-set
IsChanged(record, stored) == get_record_hash(record) \notin stored

\* One run over the records of a file against the stored digest-set: the
\* records classified as changed, and the digest-set that replaces the
\* stored one at commit.
ClassifyRun(records, stored) ==
  [changed |-> [k \in 1..Len(records) |-> IsChanged(records[k], stored)],
   digests |-> {get_record_hash(records[k]) : k \in 1..Len(records)}]

HashNames == {<<"A">>, <<"A", "B">>, <<"B">>}
HashValues == {Whole(7), Text(<<"7">>), Date(2025, 1, 2), Text(<<"2", "0", "2", "5", "-", "0", "1", "-", "0", "2">>)}

\* the raw records: up to three pairs with distinct names, in any order
HashInputs ==
  {<<>>}
  \cup {<<[name |-> n, value |-> v]>> : n \in HashNames, v \in HashValues}
  \cup {r \in [1..2 -> [name : HashNames, value : {Whole(7), Text(<<"7">>)}]] :
          r[1].name # r[2].name}
  \cup {r \in [1..3 -> [name : HashNames, value : {Whole(7), Date(2025, 1, 2)}]] :
          /\ r[1].name # r[2].name
          /\ r[1].name # r[3].name
          /\ r[2].name # r[3].name}

\* Two runs over a file of one record: the first on an empty digest-set,
\* the second on the digest-set the first one committed.
ClassifyCall ==
  /\ ProcessUnchanged
  /\ \E first \in HashInputs, second \in HashInputs :
       LET run1 == ClassifyRun(<<first>>, {})
           run2 == ClassifyRun(<<second>>, run1.digests)
       IN call' = [fn |-> "classify", first |-> first, second |-> second,
                   stored |-> run1.digests,
                   first_digest |-> get_record_hash(first),
                   second_digest |-> get_record_hash(second),
                   first_changed |-> run1.changed[1],
                   out |-> run2.changed[1]]

NextMap ==
  \/ CleanValueCall
  \/ ExtractQuantityCall
  \/ ExtractYearCall
  \/ MapRecordCall
  \/ CollectCall
  \/ ClassifyCall

\* One uploader, constructed on an empty file without a state file, whose
\* mapper functions are called with any of the inputs above.
InitMap == Construct({FALSE}, Scaled, {[exists |-> TRUE, mtime |-> 1, recs |-> <<>>, mods |-> 0]}, {NoDoc}, FALSE)

SpecMap == InitMap /\ [][NextMap]_vars

(***************************** properties *********************************)

\* ceil(n / size)
NumBatches(n, size) == (n + size - 1) \div size

\* how many times v occurs in a sequence
Occurrences(seq, v) == Cardinality({k \in DOMAIN seq : seq[k] = v})

\* the greatest element of a set of numbers, d for the empty set
MaxOf(S, d) == IF S = {} THEN d ELSE CHOOSE m \in S : \A x \in S : x <= m

\* The tick in progress (or just returned) is one of process_ordprod_file
\* that went past the file gate.
FlaskScanned == prog = "flask" /\ hist.scanned

\* The tick has committed: self.state holds what the commit put there.
Committed == pc \in {"saving", "done"}

C2_NoSilentLoss ==
  (prog = "flask" /\ Committed) =>
    \A k \in DOMAIN tick.batch_records :
      k \notin hist.confirmed => is_new_record(tick.batch_records[k], state)

\* C3: the state file changes only in the commit of a tick, after every
\* batch of the tick has been handed to the batch sender and has returned.
C3_SaveAfterAllBatches ==
  [][disk' # disk =>
       /\ pc \in {"commit", "saving"}
       /\ Len(hist.batches) = NumBatches(Len(tick.batch_records), batch_size)]_vars

\* A tick of two batches has written the state file.
C3_Witness ==
  /\ FlaskScanned /\ pc = "done" /\ status = "completed"
  /\ Len(hist.batches) = 2
  /\ disk = [kind |-> "doc", doc |-> state]
  /\ state.last_processed_ordp # hist.disk0

\* the records of the file with a numeric key above h (accepted by the
\* mapper, when asked)
Above(h, mapped) ==
  {k \in DOMAIN file.recs :
     /\ file.recs[k].isdigit
     /\ file.recs[k].ordp > h
     /\ mapped => file.recs[k].mappable}

\* the tick dispatches exactly the records of Above, and commits the
\* highest of their keys (the old mark if there are none)
DeliversExactly(h, mapped) ==
  /\ \A v \in {file.recs[k].ordp : k \in DOMAIN file.recs}
            \cup {tick.batch_records[k] : k \in DOMAIN tick.batch_records} :
       Occurrences(tick.batch_records, v) =
         Cardinality({k \in Above(h, mapped) : file.recs[k].ordp = v})
  /\ Committed =>
       state.last_processed_ordp =
         MaxOf({file.recs[k].ordp : k \in Above(h, mapped)}, h)

C5_MarkNeverDecreases ==
  prog = "flask" =>
    /\ state.last_processed_ordp >= hist.mark0
    /\ disk.kind = "doc" => disk.doc.last_processed_ordp >= hist.disk0

\* the concatenation of the sequences ss[lo], ..., ss[hi]
RECURSIVE Flatten(_, _, _)
Flatten(ss, lo, hi) ==
  IF lo > hi THEN <<>>
  ELSE IF lo = hi THEN ss[lo]
  ELSE LET mid == (lo + hi) \div 2
       IN Flatten(ss, lo, mid) \o Flatten(ss, mid + 1, hi)

\* C6: when the dispatch loop is left, ceil(n / B) batches have been sent,
\* every batch but the last has B records, the last has between 1 and B,
\* and the batches in send order concatenate to the list of mapped records.
C6_BatchPartition ==
  pc = "commit" =>
    LET n == Len(tick.batch_records)
        b == hist.batches
    IN /\ Len(b) = NumBatches(n, batch_size)
       /\ \A k \in 1..(Len(b) - 1) : Len(b[k]) = batch_size
       /\ Len(b) > 0 => Len(b[Len(b)]) \in 1..batch_size
       /\ Flatten(b, 1, Len(b)) = tick.batch_records

\* 130 records at batch size 50 have been sent as batches of 50, 50 and 30.
C6_Witness ==
  /\ pc = "commit"
  /\ Len(tick.batch_records) = 130
  /\ batch_size = 50
  /\ Len(hist.batches) = 3
  /\ [k \in 1..3 |-> Len(hist.batches[k])] = <<50, 50, 30>>

\* the answers every sender takes as a failure
Failures == (BatchResponses \cup SingleResponses) \ {"200", "201", "409"}

\* A send that was answered k failures and then 200 has returned success at
\* that answer, after k requests more and k backoff delays.
RetryThenSuccess(op) ==
  \A k \in DOMAIN op.answers :
    (op.answers[k] = "200" /\ \A i \in 1..(k - 1) : op.answers[i] \in Failures) =>
      /\ k = Len(op.answers)
      /\ op.done /\ op.ok
      /\ op.reqs = k
      /\ Len(op.delays) = k - 1

\* C7: a send whose first k attempts fail (k < MAX_RETRIES) and whose
\* attempt k + 1 succeeds returns success, has slept exactly k backoff
\* delays, and issues no request after the successful one.
C7_RetryThenSuccess == RetryThenSuccess(bop) /\ RetryThenSuccess(sop)

\* send_batch_to_api was answered two failures and then 200.
C7_Witness ==
  /\ prog = "corrected"
  /\ bop.answers = <<"500", "timeout", "200">>
  /\ bop.done /\ bop.ok
  /\ bop.reqs = 3
  /\ bop.delays = <<1, 2>>

\* C8 (as stated): a batch whose every attempt failed with a retryable
\* error is reported failed by the batch sender.
C8_ExhaustedBatchFails ==
  batch_result.via \in {"exhausted", "failed"} => ~batch_result.success

\* the last batch handed to the batch sender, and the position before it in
\* batch_records
LastBatch == hist.batches[Len(hist.batches)]
LastBatchStart == (Len(hist.batches) - 1) * batch_size

\* C9: a batch request answered 404 is not repeated; every record of the
\* batch is sent through the single-record sender, in batch order; the
\* result counts the batch, the sends that succeeded, and has one result per
\* record.
C9_Fallback404 ==
  prog = "flask" =>
    /\ (bop.answers # <<>> /\ bop.answers[Len(bop.answers)] = "404") =>
         /\ pc = "single" /\ tick.mode = "fallback" /\ tick.j = 1
         /\ bop.broke /\ ~bop.done
         /\ hist.singles = <<>>
    /\ (bop.broke /\ ~bop.done) =>
         /\ pc = "single" /\ tick.mode = "fallback"
         /\ Len(tick.results) = tick.j - 1
         /\ Len(hist.singles) \in {tick.j - 1, tick.j}
         /\ hist.singles = SubSeq(CurrentBatch, 1, Len(hist.singles))
    /\ batch_result.via = "404" =>
         /\ bop.broke /\ bop.done /\ bop.reqs = 0
         /\ batch_result.success
         /\ batch_result.total_count = Len(LastBatch)
         /\ Len(batch_result.results) = Len(LastBatch)
         /\ batch_result.success_count =
              Cardinality({k \in DOMAIN batch_result.results : batch_result.results[k]})
         /\ \A k \in DOMAIN batch_result.results :
              batch_result.results[k] <=> (LastBatchStart + k) \in hist.confirmed
         /\ hist.singles = LastBatch

\* A batch of two answered 404 has been sent record by record, the first
\* send succeeding and the second failing.
C9_Witness ==
  /\ prog = "flask"
  /\ batch_result.via = "404"
  /\ batch_result.total_count = 2
  /\ batch_result.success_count = 1
  /\ batch_result.results = <<TRUE, FALSE>>
  /\ hist.singles = <<3, 5>>

\* C10 (as stated): a single-record send answered 422 makes no further
\* attempt for the record (one request, no backoff delay) and fails.
C10_422NotRetried ==
  (sop.answers # <<>> /\ sop.answers[1] = "422") =>
    /\ sop.done /\ ~sop.ok
    /\ sop.reqs = 1
    /\ sop.delays = <<>>

\* C11: an answer 200, 201 or 409 to a single-record send is the last of
\* the send: it returns success at once, with one request per answer so far
\* and no backoff delay after the answer.
C11_SuccessStatuses ==
  \A k \in DOMAIN sop.answers :
    sop.answers[k] \in {"200", "201", "409"} =>
      /\ k = Len(sop.answers)
      /\ sop.done /\ sop.ok
      /\ sop.reqs = k
      /\ Len(sop.delays) = k - 1

\* A single-record send answered 409 at its first request has returned
\* success without a delay.
C11_Witness ==
  /\ prog = "flask"
  /\ sop.answers = <<"409">>
  /\ sop.done /\ sop.ok
  /\ sop.reqs = 1
  /\ sop.delays = <<>>

\* C12 (as stated): a batch request answered 200 or 201 with a body that
\* holds no counts is the last of the batch: the sender returns success, the
\* batch is not sent again, and success_count is the size of the batch.
C12_Any2xxIsBatchSuccess ==
  \A k \in DOMAIN bop.answers :
    bop.answers[k] \in {"200", "201"} =>
      /\ k = Len(bop.answers)
      /\ bop.done /\ bop.ok
      /\ batch_result.success
      /\ batch_result.success_count = Len(LastBatch)

\* the source file differs from the stored metadata, or there is none
FileChanged(f, st) ==
  \/ ~st.file_info.has
  \/ f.mtime # st.file_info.mtime
  \/ Len(f.recs) # st.file_info.size

\* a tick of process_ordprod_file begins on a source file that can be read
TickStartsOnFile ==
  prog = "flask" /\ pc = "idle" /\ pc' \notin {"idle", "stopped"} /\ file.exists

\* C13 (as stated): without force processing, a tick goes past the file
\* gate if and only if the mtime or the size of the file differs from the
\* stored metadata; with no stored metadata it always does, whatever the
\* mtime and the size, zero included.
C13_GateIffChanged ==
  [][(TickStartsOnFile /\ ~force /\ status' # "error") =>
       (hist'.scanned <=> FileChanged(file, state))]_vars

\* C14 (as stated): the state file always holds a whole document, the one
\* before the save or the one after it, wherever the process is killed.
C14_StateFileWhole == disk.kind # "corrupt"

C16_FailOpenLoad ==
  [][(TickStartsOnFile /\ status' # "error"
        /\ disk.kind # "doc" /\ state = load_state(disk)) =>
       (state = DefaultState /\ hist'.scanned)]_vars

\* C17 (as stated): when save_state has failed, the tick has completed, the
\* state in memory holds the values of the tick, and the state file holds
\* what it held before the tick.
C17_SaveFailureKeepsFile ==
  (prog = "flask" /\ pc = "done" /\ status = "completed" /\ hist.scanned
     /\ disk # [kind |-> "doc", doc |-> state]) =>
    /\ state.last_processed_ordp = tick.highest_ordp
    /\ state.file_info = tick.file_info
    /\ disk.kind # "corrupt"
    /\ PersistedMark(disk) = hist.disk0

\* C18: a tick of process_ordprod_file that finds the source file missing,
\* or that ends in an error result, has ended at once: no request is issued,
\* and the state in memory and the state file are as they were.
C18_FileAccessErrorFrame ==
  [][(prog = "flask" /\ pc = "idle" /\ pc' \notin {"idle", "stopped"}
        /\ (~file.exists \/ status' = "error")) =>
       /\ status' = "error" /\ pc' = "done"
       /\ state' = state /\ disk' = disk
       /\ ~hist'.scanned /\ ~hist'.requested
       /\ tick' = tick /\ bop' = bop /\ sop' = sop]_vars

\* A tick has ended in error on a source file that exists (os.stat failed),
\* with the stored mark still in memory and in the state file.
C18_Witness ==
  /\ prog = "flask" /\ pc = "done" /\ status = "error"
  /\ file.exists
  /\ ~hist.requested
  /\ state.last_processed_ordp \in StoredMarks
  /\ disk = [kind |-> "doc", doc |-> state]

\* a sequence of numbers that never goes down
Ascending(s) == \A k \in 1..(Len(s) - 1) : s[k] <= s[k + 1]

\* C19: the records of a tick are in ascending order of NO_ORDP; the batches
\* handed to the batch sender so far are, one after the other, the beginning
\* of that list; the records sent one by one are the beginning of the batch
\* they are sent for.
C19_AscendingDelivery ==
  FlaskScanned =>
    /\ Ascending(tick.batch_records)
    /\ LET sent == Flatten(hist.batches, 1, Len(hist.batches))
       IN /\ Len(sent) <= Len(tick.batch_records)
          /\ sent = SubSeq(tick.batch_records, 1, Len(sent))
    /\ hist.singles # <<>> =>
         /\ Len(hist.singles) <= Len(LastBatch)
         /\ hist.singles = SubSeq(LastBatch, 1, Len(hist.singles))

\* A file that holds the keys 7, 5, 3 in that order has been sent as the
\* batch 3, 5, then the batch 7, whose record went out by the single sender.
C19_Witness ==
  /\ FlaskScanned /\ batch_size = 2
  /\ [k \in DOMAIN file.recs |-> file.recs[k].ordp] = <<7, 5, 3>>
  /\ tick.batch_records = <<3, 5, 7>>
  /\ hist.batches = << <<3, 5>>, <<7>> >>
  /\ hist.singles = <<7>>

\* a record whose key field is missing, empty or not a number
InvalidKey(r) == ~r.isdigit \/ r.ordp = MissingOrdp

\* what the tick in progress would have collected from the source file
\* without the records of InvalidKey
ScanWithoutInvalid ==
  LET Valid(r) == ~InvalidKey(r)
      st0 == [DefaultState EXCEPT
                !.last_processed_ordp = IF force THEN 0 ELSE hist.mark0]
  IN ScanRecords(SelectSeq(file.recs, Valid), st0)

\* C20: the records InvalidKey describes are not among the records of a
\* tick, and the records of the tick, its highest_ordp and the mark it
\* commits are those of the same file without them.
C20_InvalidKeyIgnored ==
  FlaskScanned =>
    /\ \A k \in DOMAIN tick.batch_records : tick.batch_records[k] # MissingOrdp
    /\ Len(tick.batch_records) <=
         Cardinality({k \in DOMAIN file.recs : ~InvalidKey(file.recs[k])})
    /\ tick.batch_records = SortByOrdp(ScanWithoutInvalid.all_records)
    /\ tick.highest_ordp = ScanWithoutInvalid.highest_ordp
    /\ Committed => state.last_processed_ordp = ScanWithoutInvalid.highest_ordp

\* A first tick has committed on a file that holds a record with a key that
\* is not a number (read as 7 by int), a record without key, and the key 3:
\* only 3 was dispatched and the mark is 3.
C20_Witness ==
  /\ FlaskScanned /\ pc = "done" /\ hist.mark0 = 0
  /\ Len(file.recs) = 3
  /\ ~file.recs[1].isdigit /\ file.recs[1].ordp = 7 /\ file.recs[1].mappable
  /\ file.recs[2].isdigit /\ file.recs[2].ordp = MissingOrdp
  /\ file.recs[3].isdigit /\ file.recs[3].ordp = 3 /\ file.recs[3].mappable
  /\ tick.batch_records = <<3>>
  /\ state.last_processed_ordp = 3

\* the records of the source file a tick has to map and hand on: in
\* process_ordprod_file those with a valid key above the mark the scan
\* compares with, in process_dbf_file all of them, less those the mapper
\* rejects
Deliverable ==
  IF prog = "flask"
  THEN {k \in DOMAIN file.recs :
          /\ file.recs[k].isdigit
          /\ file.recs[k].ordp > (IF force THEN 0 ELSE hist.mark0)
          /\ file.recs[k].mappable}
  ELSE {k \in DOMAIN file.recs : file.recs[k].mappable}

\* C21: a tick that went past the scan has mapped every deliverable record
\* whatever the mapper said of the others, has handed every one of them to
\* the batch sender whatever the answers were, has sent every record of a
\* batch that fell back to the single sender, and returns completed.
C21_FailureIsolation ==
  /\ (hist.scanned /\ pc \in {"commit", "saving", "done"}) =>
       /\ \A v \in OrdpValues \cup {MissingOrdp} :
            Occurrences(tick.batch_records, v) =
              Cardinality({k \in Deliverable : file.recs[k].ordp = v})
       /\ Len(tick.batch_records) = Cardinality(Deliverable)
       /\ Flatten(hist.batches, 1, Len(hist.batches)) = tick.batch_records
       /\ pc = "done" => status = "completed"
  /\ batch_result.via \in {"404", "exhausted"} => hist.singles = LastBatch

\* A tick over a file whose first record the mapper rejects, followed by
\* the keys 3 and 5, has returned completed: both were dispatched, the
\* delivery of 3 failed and the delivery of 5 was confirmed after it.
C21_Witness ==
  /\ FlaskScanned /\ pc = "done" /\ status = "completed"
  /\ Len(file.recs) = 3
  /\ file.recs[1].isdigit /\ ~file.recs[1].mappable
  /\ file.recs[1].ordp > hist.mark0
  /\ tick.batch_records = <<3, 5>>
  /\ hist.confirmed = {2}

\* C22 (as stated): when the process has ended on an interrupt, the state
\* file holds the state that was in memory.
C22_InterruptFlush == pc = "stopped" => load_state(disk) = state

\* NO_OPRO of a raw record after cleaning (the empty text when the record
\* has no such field)
CleanedKey(record) ==
  IF "NO_OPRO" \in DOMAIN record
  THEN clean_value("corrected", record["NO_OPRO"])
  ELSE <<>>

\* C23: map_record_to_api returns None exactly for the records whose NO_OPRO
\* is empty after cleaning, and a payload carries the cleaned NO_OPRO; the
\* list process_dbf_file cuts its batches from holds, in file order, one
\* payload for every other record and none for those, each with a no_opro
\* that is not empty.
C23_IdentifierValidation ==
  /\ call.fn = "map_record_to_api" =>
       /\ (CleanedKey(call.arg) = <<>>) <=> (call.out = None)
       /\ call.out # None =>
            /\ call.out.fields.no_opro = Text(CleanedKey(call.arg))
            /\ call.out.fields.no_opro # Text(<<>>)
  /\ call.fn = "process_dbf_file" =>
       LET HasKey(record) == CleanedKey(record) # <<>>
           accepted == SelectSeq(call.arg, HasKey)
       IN /\ Len(call.out) = Len(accepted)
          /\ \A k \in DOMAIN call.out :
               /\ call.out[k].fields.no_opro = Text(CleanedKey(accepted[k]))
               /\ call.out[k].fields.no_opro # Text(<<>>)

\* A file of three records whose second has the NO_OPRO "nan" has given
\* the payloads of the first and of the third.
C23_Witness ==
  /\ call.fn = "process_dbf_file"
  /\ Len(call.arg) = 3
  /\ call.arg[2] = [NO_OPRO |-> Text(<<"n", "a", "n">>), OBSERVA |-> Text(<<>>)]
  /\ Len(call.out) = 2
  /\ call.out[1].fields.no_opro = Text(<<"A", "1">>)
  /\ call.out[2].fields.no_opro = Text(<<"B", "2">>)

\* the whole part, at least 1, of a cleaned candidate that reads as a number
\* above zero; 0 for any other candidate
FlooredAboveZero(value) ==
  LET qty == ParseFloat(value) IN
  IF qty.ok /\ ~qty.neg /\ (qty.whole > 0 \/ qty.frac)
  THEN (IF qty.whole < 1 THEN 1 ELSE qty.whole)
  ELSE 0

\* C24: extract_quantity returns the floor, raised to 1, of the first of
\* REN_OPRO, CARGA_OPRO, CANT_LIQ that reads as a number above zero, and the
\* default when none does.
C24_QuantityExtraction ==
  call.fn = "extract_quantity" =>
    LET floored == [k \in 1..3 |->
                      IF QuantityFields[k] \in DOMAIN call.arg
                      THEN FlooredAboveZero(
                             clean_value("corrected", call.arg[QuantityFields[k]]))
                      ELSE 0]
    IN call.out = IF floored[1] > 0 THEN floored[1]
                  ELSE IF floored[2] > 0 THEN floored[2]
                  ELSE IF floored[3] > 0 THEN floored[3]
                  ELSE DEFAULT_QUANTITY

\* The candidates "0", "" and "12.5" have given 12.
C24_Witness ==
  /\ call.fn = "extract_quantity"
  /\ call.arg = [REN_OPRO |-> Text(<<"0">>), CARGA_OPRO |-> Text(<<>>), CANT_LIQ |-> Text(<<"1", "2", ".", "5">>)]
  /\ call.out = 12

\* a text holds another
Contains(s, sub) ==
  \E i \in 1..(Len(s) - Len(sub) + 1) : SubSeq(s, i, i + Len(sub) - 1) = sub

\* the priority the rules give a status text
RulePriority(status_text) ==
  LET folded == Lower(status_text) IN
  IF Contains(folded, <<"u", "r", "g", "e", "n", "t", "e">>) THEN <<"h", "i", "g", "h">>
  ELSE IF Contains(folded, <<"c", "a", "n", "c", "e", "l", "a", "d", "a">>) THEN <<"l", "o", "w">>
  ELSE IF Contains(folded, <<"t", "e", "r", "m", "i", "n", "a", "d", "a">>) \/ Contains(folded, <<"c", "o", "m", "p", "l", "e", "t", "a", "d", "a">>) THEN <<"h", "i", "g", "h">>
  ELSE <<"m", "e", "d", "i", "u", "m">>

\* C25 (as stated): the priority of a payload is the one the rules give
\* the status text of the record.
C25_PriorityFromStatus ==
  (call.fn = "map_record_to_api" /\ call.out # None) =>
    call.out.fields.priority =
      Text(RulePriority(IF "STAT_OPRO" \in DOMAIN call.arg
                        THEN clean_value("corrected", call.arg["STAT_OPRO"])
                        ELSE <<>>))

\* the year the rules find in the date field (the empty text: none)
RuleDateYear(fec_opro) ==
  IF \E k \in DOMAIN fec_opro : fec_opro[k] = "-"
  THEN Split(fec_opro, "-")[1]
  ELSE IF \E k \in DOMAIN fec_opro : fec_opro[k] = "/"
  THEN LET parts == Split(fec_opro, "/") IN
       IF Len(parts) >= 3 /\ Len(parts[3]) = 4 THEN parts[3] ELSE <<>>
  ELSE IF Len(fec_opro) >= 4 /\ IsDigit(FirstFour(fec_opro)) THEN FirstFour(fec_opro)
  ELSE <<>>

\* C26 (as stated): extract_year never returns the empty text; when the
\* date field gives no year it returns ANO if ANO is all digits, and the
\* current year otherwise.
C26_YearFallbackChain ==
  call.fn = "extract_year" =>
    LET field(f) == IF f \in DOMAIN call.arg
                    THEN clean_value("corrected", call.arg[f]) ELSE <<>>
    IN /\ call.out # <<>>
       /\ RuleDateYear(field("FEC_OPRO")) = <<>> =>
            call.out = IF IsDigit(field("ANO")) THEN field("ANO") ELSE CurrentYear

\* C27 (as stated): a payload holds notes, and no other field whose value
\* is the empty text, None or zero.
C27_FieldPruning ==
  (call.fn = "map_record_to_api" /\ call.out # None) =>
    /\ "notes" \in DOMAIN call.out.fields
    /\ \A k \in DOMAIN call.out.fields \ {"notes"} :
         call.out.fields[k] \notin {Text(<<>>), None, Whole(0)}

\* C28 (as stated): clean_value gives the empty text for None, for a blank
\* text and for the tokens nan and none in any case, with or without
\* whitespace around them, and the stripped text of any other value.
C28_CleaningRule ==
  call.fn = "clean_value" =>
    LET stripped == IF call.arg = None THEN <<>> ELSE Strip(StrOf(call.arg))
    IN call.out = IF Lower(stripped) \in {<<>>, <<"n", "a", "n">>, <<"n", "o", "n", "e">>}
                  THEN <<>> ELSE stripped

\* the field values of a raw record, whatever the order of its pairs
ContentOf(record) == {<<record[k].name, record[k].value>> : k \in 1..Len(record)}

\* C29: two raw records with the same field names and values have the same
\* digest whatever the insertion order of their fields, and the second is
\* classified as unchanged once the digest of the first is stored.
C29_FingerprintDeterminism ==
  (call.fn = "classify" /\ ContentOf(call.first) = ContentOf(call.second)) =>
    /\ call.first_digest = call.second_digest
    /\ call.first_digest \in call.stored
    /\ ~call.out

\* two records of three fields in different insertion orders, the first
\* classified as changed and the second as unchanged
C29_Witness ==
  /\ call.fn = "classify"
  /\ Len(call.first) = 3
  /\ call.first # call.second
  /\ ContentOf(call.first) = ContentOf(call.second)
  /\ call.first_changed
  /\ ~call.out

\* the retry loop of the flask batch sender has just been left without a
\* success answer, by the 404 break or after the last attempt
BatchLoopLeft ==
  /\ prog = "flask"
  /\ pc = "single"
  /\ tick.mode = "fallback"
  /\ tick.j = 1
  /\ sop = NewOp

\* the requests and delays of a send whose every request failed
FullSchedule(op) ==
  /\ op.reqs = MAX_RETRIES
  /\ op.delays = [k \in 1..(MAX_RETRIES - 1) |-> 2^(k - 1)]

\* the bound on the requests and the delays of a send, at any point of it
WithinSchedule(op) ==
  /\ op.reqs <= MAX_RETRIES
  /\ Len(op.delays) <= MAX_RETRIES - 1
  /\ \A k \in 1..Len(op.delays) : op.delays[k] = 2^(k - 1)
  /\ Len(op.delays) <= op.reqs
  /\ (op.done /\ op.reqs > 0) => Len(op.delays) = op.reqs - 1

\* C30 (as stated): a send makes at most MAX_RETRIES requests; when all of
\* them fail it has made exactly MAX_RETRIES requests and slept exactly
\* MAX_RETRIES - 1 times, 2^a after failed attempt a, and not after the
\* last one.
C30_AttemptBoundAndBackoff ==
  /\ WithinSchedule(bop)
  /\ WithinSchedule(sop)
  /\ (sop.done /\ ~sop.ok) => FullSchedule(sop)
  /\ (prog = "corrected" /\ bop.done /\ ~bop.ok) => FullSchedule(bop)
  /\ BatchLoopLeft => (Len(bop.delays) = bop.reqs - 1 /\ FullSchedule(bop))

\* C30 (amended): the same, for every send whose requests all failed
\* except a batch send of the flask uploader that was answered 404, which
\* makes no further request to the batch endpoint.
C30_AttemptBoundUnless404 ==
  /\ WithinSchedule(bop)
  /\ WithinSchedule(sop)
  /\ (sop.done /\ ~sop.ok) => FullSchedule(sop)
  /\ (prog = "corrected" /\ bop.done /\ ~bop.ok) => FullSchedule(bop)
  /\ (BatchLoopLeft /\ ~bop.broke) =>
       (Len(bop.delays) = bop.reqs - 1 /\ FullSchedule(bop))

\* a batch of the flask uploader and then its first record have both been
\* given up after MAX_RETRIES requests and the delays 1 and 2
C30_Witness ==
  /\ prog = "flask"
  /\ pc = "single"
  /\ tick.mode = "fallback"
  /\ ~bop.broke
  /\ hist.batches # <<>>
  /\ sop.done /\ ~sop.ok
  /\ sop.reqs = MAX_RETRIES
  /\ sop.delays = <<1, 2>>

\* the step changes self.state or STATE_FILE
StateTouched == state' # state \/ disk' # disk

\* the step is the commit or the write of the state file, and every batch
\* of the tick has been handed to the sender
AfterDispatch ==
  /\ pc \in {"commit", "saving"}
  /\ Flatten(hist.batches, 1, Len(hist.batches)) = tick.batch_records

\* a new process has been constructed: __init__ has loaded the state
Reloaded == pc' = "idle" /\ disk' = disk /\ state' = load_state(disk)

\* the reset of the mark at the start of a forced tick
ForcedReset ==
  /\ prog = "flask" /\ force /\ pc = "idle"
  /\ disk' = disk
  /\ state' = [state EXCEPT !.last_processed_ordp = 0]

BatchFinished ==
  /\ prog = "flask"
  /\ pc \in {"batch", "single"}
  /\ pc' \in {"batch", "commit"}
  /\ (pc' = "commit" \/ tick'.i > tick.i)

\* the value the batch sender returns after the individual sends of batch
FallbackShape(res, batch) ==
  /\ res.success
  /\ res.total_count = Len(batch)
  /\ Len(res.results) = Len(batch)
  /\ res.success_count = CountTrue(res.results)

\* C32: a batch of the flask uploader is finished either by a 200/201
\* answer of the batch endpoint or by the individual sends of all its
\* records, in order, after a 404 and after MAX_RETRIES failed attempts
\* alike, with the same kind of result; and the batch loop that has used up
\* its attempts stands at the first individual send.
C32_ExhaustedBatchFallsBack ==
  [][/\ BatchFinished =>
          \/ batch_result'.via = "batch"
          \/ /\ batch_result'.via \in {"404", "exhausted"}
             /\ hist'.singles = CurrentBatch
             /\ FallbackShape(batch_result', CurrentBatch)
     /\ (prog = "flask" /\ pc = "batch" /\ bop'.reqs = MAX_RETRIES /\ ~bop'.done) =>
          (pc' = "single" /\ tick'.mode = "fallback" /\ tick'.j = 1)]_vars

\* a batch of two records was given up by the batch endpoint after the
\* retries, and its records were sent one by one, one of them with success
C32_Witness ==
  /\ prog = "flask"
  /\ batch_result.via = "exhausted"
  /\ Len(hist.singles) = 2
  /\ hist.singles = LastBatch
  /\ batch_result.success_count = 1

\* s is the beginning of t
IsPrefix(s, t) == Len(s) <= Len(t) /\ s = SubSeq(t, 1, Len(s))

\* C33: in the flask uploader the batch sender never returns a failure, the
\* branch of process_ordprod_file that sends the records of a failed batch
\* again is never entered, and the records of a batch go through the
\* individual sends at most once, each with at most MAX_RETRIES requests.
C33_BatchSenderAlwaysSucceeds ==
  prog = "flask" =>
    /\ bop.done => bop.ok
    /\ batch_result # NoResult => batch_result.success
    /\ tick.mode # "orch"
    /\ hist.batches # <<>> => IsPrefix(hist.singles, LastBatch)
    /\ sop.reqs <= MAX_RETRIES

\* every request for a batch of two records has failed, on the batch
\* endpoint and on the single-record endpoint, and the sender has returned
\* success with no record sent
C33_Witness ==
  /\ prog = "flask"
  /\ pc \in {"batch", "commit"}
  /\ batch_result.via = "exhausted"
  /\ batch_result.success
  /\ batch_result.success_count = 0
  /\ Len(hist.singles) = 2
  /\ sop.done /\ ~sop.ok /\ sop.reqs = MAX_RETRIES

\* the requests of the tick stay within MAX_RETRIES per batch on the batch
\* endpoint and MAX_RETRIES per changed record on the single-record endpoint
RequestsWithinBound ==
  LET n == Len(tick.batch_records) IN
  /\ hist.batch_reqs <= NumBatches(n, batch_size) * MAX_RETRIES
  /\ hist.single_reqs <= n * MAX_RETRIES

\* C34: when every request returns or times out, process_ordprod_file
\* reaches its return, having made at most ceil(n / BATCH_SIZE) * MAX_RETRIES
\* batch requests and n * MAX_RETRIES single-record requests for n changed
\* records, whatever the answers.
C34_TickTerminates ==
  /\ [](prog = "flask" => RequestsWithinBound)
  /\ (prog = "flask") ~> (pc = "done")

\* a tick over three changed records has returned after every request it
\* could make: all attempts of both batches and of all three records failed
C34_Witness ==
  /\ prog = "flask"
  /\ pc = "done"
  /\ Len(tick.batch_records) = 3
  /\ hist.batch_reqs = NumBatches(3, batch_size) * MAX_RETRIES
  /\ hist.single_reqs = 3 * MAX_RETRIES

AcceptedRecords ==
  LET accepted(r) == r.mappable
      sel == SelectSeq(file.recs, accepted)
  IN [k \in 1..Len(sel) |-> sel[k].ordp]

\* C36: in the corrected uploader self.state stays what load_state returned
\* at construction, the state file once written holds that same state, and
\* a run that read the file hands every record the mapper accepts to the
\* sender, whatever the state file held and whether or not the file changed.
C36_CorrectedStateIsInert ==
  /\ [](prog = "corrected" =>
          /\ disk.kind = "doc" => disk.doc = state
          /\ (hist.scanned /\ pc \in {"commit", "saving", "done"}) =>
               /\ tick.batch_records = AcceptedRecords
               /\ Flatten(hist.batches, 1, Len(hist.batches)) = tick.batch_records)
  /\ [][(prog = "corrected" /\ pc' # "idle") => state' = state]_vars

\* a run that started from a state file holding the mark 4 has sent the
\* record 3 of a file nobody touched, and has written the state it loaded
C36_Witness ==
  /\ prog = "corrected"
  /\ pc = "done"
  /\ file.mods = 0
  /\ hist.mark0 = 4
  /\ 3 \in {tick.batch_records[k] : k \in 1..Len(tick.batch_records)}
  /\ hist.confirmed # {}
  /\ disk = [kind |-> "doc", doc |-> state]
  /\ state.last_processed_ordp = 4

\* C37 (as stated): cleaning a cleaned value changes nothing:
\* clean_value(clean_value(v)) = clean_value(v) for every value v.
C37_CleanValueIdempotent ==
  call.fn = "clean_value" => clean_value(prog, Text(call.out)) = call.out

=============================================================================
